---- MODULE Spec2Model ----
(***************************************************************************)
(* arcsync: the change-detection pipeline of SyncManager.run               *)
(* (src/arcsync/pipeline/pipeline_manager.py).  One run reads the source   *)
(* into current_map, loads the persisted fingerprints, diffs, calls the    *)
(* sink once and overwrites the state file.                                *)
(***************************************************************************)
EXTENDS Integers, Sequences, FiniteSets, TLC

VARIABLES state_file, run, hist, batch, mgr

vars == <<state_file, run, hist, batch, mgr>>

\* The variables of the batch upload loop and of the construction of a
\* SyncManager, which a run leaves alone.
others == <<batch, mgr>>

\* Longest sequence of records a source yields in one run.
MaxLen == 2

\* -------------------------------------------------------------------------
\* Values, records, sources
\* -------------------------------------------------------------------------

\* A scalar of a record: an integer or a string (tagged, both fields present).
IntVal(n) == [t |-> "int", i |-> n, s |-> ""]
StrVal(x) == [t |-> "str", i |-> 0, s |-> x]

Digits == <<"1", "2", "3", "4", "5", "6", "7", "8", "9">>

\* Python str(): the decimal text of an integer, a string unchanged.
Str(v) == IF v.t = "int" THEN Digits[v.i] ELSE v.s

\* cfg["source"].get("key_column", "id")
key_col == "id"

\* A record is a dict: a sequence of <<field, value>> pairs in insertion order.
HasField(rec, f) == \E j \in 1..Len(rec) : rec[j][1] = f
Get(rec, f) == rec[CHOOSE j \in 1..Len(rec) : rec[j][1] = f][2]

\* The records a source may yield: rows with two distinct keys, the same key
\* with two values of a column, a key whose string form equals that of
\* another (1 and "1"), a row with its columns in the other order, a row
\* with the key column only, and a row without the key column.
Records ==
    { <<<<"id", IntVal(1)>>, <<"name", StrVal("A")>>>>,
      <<<<"id", IntVal(1)>>, <<"name", StrVal("B")>>>>,
      <<<<"id", IntVal(2)>>, <<"name", StrVal("A")>>>>,
      <<<<"id", StrVal("1")>>, <<"name", StrVal("B")>>>>,
      <<<<"name", StrVal("A")>>, <<"id", IntVal(1)>>>>,
      <<<<"id", IntVal(2)>>>>,
      <<<<"name", StrVal("A")>>>> }

Datasets == UNION {[1..n -> Records] : n \in 0..MaxLen}

\* -------------------------------------------------------------------------
\* Fingerprint and diff (arcsync.sync.cdc, imported at pipeline_manager.py:9)
\* -------------------------------------------------------------------------

\* Field names in sorted order.
FieldOrder == <<"id", "name", "value">>

\* record_hash over the fields in insertion order, without the sort.
record_hash_Unsorted(rec) ==
    LET fs == SelectSeq(rec, LAMBDA e : e[1] # key_col)
    IN  [j \in 1..Len(fs) |-> <<fs[j][1], Str(fs[j][2])>>]

\* The digest of a record: its non-key fields sorted by name, each as
\* "field=value" with the value in string form.  The digest is modelled by
\* the canonical text it is computed from.
record_hash(rec) ==
    LET fs == SelectSeq(FieldOrder, LAMBDA f : f # key_col /\ HasField(rec, f))
    IN  [j \in 1..Len(fs) |-> <<fs[j], Str(Get(rec, fs[j]))>>]

\* The records of a list of dict entries <<key, record>>.
Values(sel) == [j \in 1..Len(sel) |-> sel[j][2]]

\* A diff that does not test the hash: every known key is an update.
diff_by_hash_NoHashTest(cm, prev) ==
    [to_insert |-> Values(SelectSeq(cm, LAMBDA e : e[1] \notin DOMAIN prev)),
     to_update |-> Values(SelectSeq(cm, LAMBDA e : e[1] \in DOMAIN prev))]

\* A diff that inserts every record, known or not.
diff_by_hash_AllInsert(cm, prev) ==
    [to_insert |-> Values(cm),
     to_update |-> Values(SelectSeq(cm, LAMBDA e :
                      e[1] \in DOMAIN prev /\ record_hash(e[2]) # prev[e[1]]))]

\* diff_by_hash(current_map, prev_hash) -> (to_insert, to_update)
diff_by_hash(cm, prev) ==
    [to_insert |-> Values(SelectSeq(cm, LAMBDA e : e[1] \notin DOMAIN prev)),
     to_update |-> Values(SelectSeq(cm, LAMBDA e :
                      e[1] \in DOMAIN prev /\ record_hash(e[2]) # prev[e[1]]))]

\* -------------------------------------------------------------------------
\* The state file
\* -------------------------------------------------------------------------

NoMap == <<>>

Absent == [kind |-> "absent", map |-> NoMap]       \* no file
Garbage == [kind |-> "garbage", map |-> NoMap]     \* text that is not JSON
Empty == [kind |-> "empty", map |-> NoMap]         \* truncated, nothing written
Partial == [kind |-> "partial", map |-> NoMap]     \* a prefix of a JSON text
NonObject == [kind |-> "nonobject", map |-> NoMap] \* JSON, but no object
ObjectFile(m) == [kind |-> "object", map |-> m]    \* a JSON object

Unparseable == {"garbage", "empty", "partial"}

\* _load_state that lets the decoding error escape.
load_state_NoCatch(f) ==
    IF f.kind = "absent" THEN [kind |-> "object", map |-> NoMap]
    ELSE IF f.kind \in Unparseable THEN [kind |-> "raise", map |-> NoMap]
    ELSE [kind |-> f.kind, map |-> f.map]

\* SyncManager._load_state: {} when the file does not exist or json.loads
\* raises, the decoded value otherwise.
load_state(f) ==
    IF f.kind = "absent" THEN [kind |-> "object", map |-> NoMap]
    ELSE IF f.kind \in Unparseable THEN [kind |-> "object", map |-> NoMap]
    ELSE [kind |-> f.kind, map |-> f.map]

\* -------------------------------------------------------------------------
\* The read loop of run
\* -------------------------------------------------------------------------

\* A dict that keeps the first record it was given for a key.
DictSet_KeepFirst(cm, k, rec) ==
    IF \E j \in 1..Len(cm) : cm[j][1] = k THEN cm
    ELSE Append(cm, <<k, rec>>)

\* current_map[k] = rec on an insertion-ordered dict of <<key, record>>.
DictSet(cm, k, rec) ==
    IF \E j \in 1..Len(cm) : cm[j][1] = k
    THEN [cm EXCEPT ![CHOOSE j \in 1..Len(cm) : cm[j][1] = k] = <<k, rec>>]
    ELSE Append(cm, <<k, rec>>)

\* The loop with the key test left out: a record without the key is skipped.
RECURSIVE ReadLoop_Skip(_, _, _)
ReadLoop_Skip(recs, j, cm) ==
    IF j > Len(recs)
    THEN [kind |-> "ok", current_map |-> cm, rec |-> <<>>, n |-> Len(recs)]
    ELSE IF ~HasField(recs[j], key_col) THEN ReadLoop_Skip(recs, j + 1, cm)
    ELSE ReadLoop_Skip(recs, j + 1,
                       DictSet(cm, Str(Get(recs[j], key_col)), recs[j]))

\* for rec in src.read(): KeyError on the first record without key_col,
\* else current_map[str(rec[key_col])] = rec.
RECURSIVE ReadLoop(_, _, _)
ReadLoop(recs, j, cm) ==
    IF j > Len(recs)
    THEN [kind |-> "ok", current_map |-> cm, rec |-> <<>>, n |-> Len(recs)]
    ELSE IF ~HasField(recs[j], key_col)
         THEN [kind |-> "KeyError", current_map |-> cm, rec |-> recs[j], n |-> j]
         ELSE ReadLoop(recs, j + 1,
                       DictSet(cm, Str(Get(recs[j], key_col)), recs[j]))

\* {k: record_hash(v) for k, v in current_map.items()}
HashesOf(cm) ==
    [k \in {cm[j][1] : j \in 1..Len(cm)} |->
        record_hash(cm[CHOOSE j \in 1..Len(cm) : cm[j][1] = k][2])]

\* -------------------------------------------------------------------------
\* One run, step by step
\* -------------------------------------------------------------------------

NoErr == [kind |-> "none", rec |-> <<>>]
NoJson == [kind |-> "none", map |-> NoMap]

Idle == [pc |-> "idle", at |-> "", dry_run |-> FALSE, src |-> <<>>,
         yielded |-> 0, current_map |-> <<>>, prev_hash |-> NoJson,
         to_insert |-> <<>>, to_update |-> <<>>, upserts |-> 0,
         err |-> NoErr, file0 |-> Absent]

NoHist == [valid |-> FALSE, pc |-> "", dry_run |-> FALSE,
           err |-> "none", to_insert |-> <<>>, to_update |-> <<>>,
           file0 |-> Absent, cm |-> <<>>, before |-> <<>>]

Ended == {"done", "failed", "crashed"}
Running == {"read", "load", "diff", "sink", "save", "saving"}
\* The positions of a run at which the diff has been computed.
Diffed == {"sink", "save", "saving", "done"}

\* No upload loop and no construction under way.
NoBatch == [pc |-> "none"]
NoMgr == [pc |-> "none"]

Init ==
    /\ state_file \in {Absent, Garbage, NonObject}
    /\ run = [p \in {1} |-> Idle]
    /\ hist = NoHist
    /\ batch = NoBatch
    /\ mgr = NoMgr

\* arcsync sync [--dry-run]: sm = SyncManager(cfg, dry_run); sm.run(), up to
\* the read loop, over a source that holds the records D.
Start(p, D, dry) ==
    /\ run[p].pc = "idle"
    /\ run' = [run EXCEPT ![p] = [Idle EXCEPT !.pc = "read", !.dry_run = dry,
                                              !.src = D, !.file0 = state_file]]
    /\ hist' = NoHist
    /\ UNCHANGED state_file

\* The command is given again while the source still holds the same records.
\* hist keeps what the run before it did, when that run reached the sink.
Rerun(p, dry) ==
    /\ run[p].pc \in {"done", "failed"}
    /\ run' = [run EXCEPT ![p] = [Idle EXCEPT !.pc = "read", !.dry_run = dry,
                                              !.src = run[p].src,
                                              !.file0 = state_file]]
    /\ hist' = IF run[p].upserts > 0
               THEN [valid |-> TRUE, pc |-> run[p].pc,
                     dry_run |-> run[p].dry_run, err |-> run[p].err.kind,
                     to_insert |-> run[p].to_insert,
                     to_update |-> run[p].to_update,
                     file0 |-> Absent, cm |-> <<>>, before |-> <<>>]
               ELSE NoHist
    /\ UNCHANGED state_file

\* The process has exited and the source is edited: nothing of the run is
\* left but the state file.
Exit(p) ==
    /\ run[p].pc \in Ended
    /\ run' = [run EXCEPT ![p] = Idle]
    /\ hist' = NoHist
    /\ UNCHANGED state_file

\* A read loop that saves what it has read when a record lacks the key.
ReadSource_SavesPartial(p) ==
    /\ run[p].pc = "read"
    /\ LET r == ReadLoop(run[p].src, 1, <<>>)
       IN  /\ run' = [run EXCEPT
                  ![p].yielded = r.n,
                  ![p].pc = IF r.kind = "ok" THEN "load" ELSE "failed",
                  ![p].current_map = IF r.kind = "ok" THEN r.current_map ELSE <<>>,
                  ![p].err = IF r.kind = "ok" THEN NoErr
                             ELSE [kind |-> r.kind, rec |-> r.rec]]
           /\ state_file' = IF r.kind = "ok" THEN state_file
                            ELSE ObjectFile(HashesOf(r.current_map))
    /\ UNCHANGED hist

\* The read loop over a source that yields all its records.
ReadSource(p) ==
    /\ run[p].pc = "read"
    /\ LET r == ReadLoop(run[p].src, 1, <<>>)
       IN  run' = [run EXCEPT
                ![p].yielded = r.n,
                ![p].pc = IF r.kind = "ok" THEN "load" ELSE "failed",
                ![p].current_map = IF r.kind = "ok" THEN r.current_map ELSE <<>>,
                ![p].err = IF r.kind = "ok" THEN NoErr
                           ELSE [kind |-> r.kind, rec |-> r.rec]]
    /\ UNCHANGED <<state_file, hist>>

\* The read loop over a source that raises after yielding n records.
ReadSourceFails(p) ==
    /\ run[p].pc = "read"
    /\ \E n \in 0..Len(run[p].src) :
         LET r == ReadLoop(SubSeq(run[p].src, 1, n), 1, <<>>)
         IN  run' = [run EXCEPT
                  ![p].yielded = r.n,
                  ![p].pc = "failed",
                  ![p].err = IF r.kind = "ok"
                             THEN [kind |-> "SourceError", rec |-> <<>>]
                             ELSE [kind |-> r.kind, rec |-> r.rec]]
    /\ UNCHANGED <<state_file, hist>>

\* prev_hash = self._load_state()
LoadState(p) ==
    /\ run[p].pc = "load"
    /\ LET v == load_state(state_file)
       IN  run' = [run EXCEPT
                ![p].pc = IF v.kind = "raise" THEN "failed" ELSE "diff",
                ![p].prev_hash = IF v.kind = "raise" THEN NoJson ELSE v,
                ![p].err = IF v.kind = "raise"
                           THEN [kind |-> "JSONDecodeError", rec |-> <<>>]
                           ELSE NoErr]
    /\ UNCHANGED <<state_file, hist>>

\* to_insert, to_update = diff_by_hash(current_map, prev_hash)
Diff(p) ==
    /\ run[p].pc = "diff"
    /\ run[p].prev_hash.kind = "object"
    /\ LET d == diff_by_hash(run[p].current_map, run[p].prev_hash.map)
       IN  run' = [run EXCEPT ![p].pc = "sink",
                              ![p].to_insert = d.to_insert,
                              ![p].to_update = d.to_update]
    /\ UNCHANGED <<state_file, hist>>

\* The diff over a loaded value that is no mapping: a TypeError, or (an empty
\* list under a membership test) no key found.
DiffNonMapping(p) ==
    /\ run[p].pc = "diff"
    /\ run[p].prev_hash.kind = "nonobject"
    /\ \/ run' = [run EXCEPT ![p].pc = "failed",
                             ![p].err = [kind |-> "TypeError", rec |-> <<>>]]
       \/ LET d == diff_by_hash(run[p].current_map, NoMap)
          IN  run' = [run EXCEPT ![p].pc = "sink",
                                 ![p].to_insert = d.to_insert,
                                 ![p].to_update = d.to_update]
    /\ UNCHANGED <<state_file, hist>>

\* sink.upsert raises and the save is done all the same.
UpsertRaises_Swallowed(p) ==
    /\ run[p].pc = "sink"
    /\ ~run[p].dry_run
    /\ run' = [run EXCEPT ![p].pc = "failed", ![p].upserts = @ + 1,
                          ![p].err = [kind |-> "SinkError", rec |-> <<>>]]
    /\ state_file' = ObjectFile(HashesOf(run[p].current_map))
    /\ UNCHANGED hist

\* The state is written by the step that calls the sink.
Upsert_SaveFirst(p) ==
    /\ run[p].pc = "sink"
    /\ run' = [run EXCEPT ![p].pc = "save", ![p].upserts = @ + 1]
    /\ state_file' = ObjectFile(HashesOf(run[p].current_map))
    /\ UNCHANGED hist

\* sink.upsert(to_insert, to_update) returns: the dry-run log line, or the
\* platform calls.
Upsert(p) ==
    /\ run[p].pc = "sink"
    /\ run' = [run EXCEPT ![p].pc = "save", ![p].upserts = @ + 1]
    /\ UNCHANGED <<state_file, hist>>

\* sink.upsert raises (the platform is unreachable): run propagates it.
UpsertRaises(p) ==
    /\ run[p].pc = "sink"
    /\ ~run[p].dry_run
    /\ run' = [run EXCEPT ![p].pc = "failed", ![p].upserts = @ + 1,
                          ![p].err = [kind |-> "SinkError", rec |-> <<>>]]
    /\ UNCHANGED <<state_file, hist>>

\* The new state merged into the previous one.
NewHashes_Merge(p) ==
    LET new == HashesOf(run[p].current_map)
        old == run[p].prev_hash.map
    IN  [k \in DOMAIN new \cup DOMAIN old |->
            IF k \in DOMAIN new THEN new[k] ELSE old[k]]

\* The previous state written back.
NewHashes_Stale(p) == run[p].prev_hash.map

\* new_hashes = {k: record_hash(v) for k, v in current_map.items()}
NewHashes(p) == HashesOf(run[p].current_map)

\* write_text, first half: open(state_file, "w") creates or truncates.
SaveOpen(p) ==
    /\ run[p].pc = "save"
    /\ run' = [run EXCEPT ![p].pc = "saving"]
    /\ state_file' = Empty
    /\ UNCHANGED hist

\* What the file can hold after the text of m is written from offset 0 over
\* the content cur: the text alone when cur is no longer than it (each entry
\* of the mapping is one line of the same length), the text followed by the
\* tail of cur, which is no JSON, when cur is longer.  cur is other than
\* empty only when another process has written since this one opened it.
Overwrite(cur, m) ==
    IF cur.kind \in {"absent", "empty"} THEN {ObjectFile(m)}
    ELSE IF cur.kind = "object"
         THEN IF Cardinality(DOMAIN cur.map) <= Cardinality(DOMAIN m)
              THEN {ObjectFile(m)} ELSE {Garbage}
         ELSE {ObjectFile(m), Garbage}

\* write_text, second half: json.dumps(hashes) written and the file closed.
SaveWrite(p) ==
    /\ run[p].pc = "saving"
    /\ run' = [run EXCEPT ![p].pc = "done"]
    /\ state_file' \in Overwrite(state_file, NewHashes(p))
    /\ UNCHANGED hist

\* The process dies; its memory is lost.  Inside write_text the file is left
\* truncated or with part of the text (at, src and file0 remember which save
\* was cut short).
Crash(p) ==
    /\ run[p].pc \in Running
    /\ run' = [run EXCEPT ![p] =
                IF run[p].pc = "saving"
                THEN [Idle EXCEPT !.pc = "crashed", !.at = "saving",
                                  !.src = run[p].src, !.file0 = run[p].file0]
                ELSE [Idle EXCEPT !.pc = "crashed"]]
    /\ state_file' \in IF run[p].pc = "saving" THEN {state_file, Partial}
                       ELSE {state_file}
    /\ UNCHANGED hist

StartSome == \E p \in DOMAIN run, D \in Datasets, dry \in BOOLEAN : Start(p, D, dry)
RerunSome == \E p \in DOMAIN run, dry \in BOOLEAN : Rerun(p, dry)

Next ==
    \/ StartSome /\ UNCHANGED others
    \/ RerunSome /\ UNCHANGED others
    \/ \E p \in DOMAIN run : Exit(p) /\ UNCHANGED others
    \/ \E p \in DOMAIN run : ReadSource(p) /\ UNCHANGED others
    \/ \E p \in DOMAIN run : ReadSourceFails(p) /\ UNCHANGED others
    \/ \E p \in DOMAIN run : LoadState(p) /\ UNCHANGED others
    \/ \E p \in DOMAIN run : Diff(p) /\ UNCHANGED others
    \/ \E p \in DOMAIN run : DiffNonMapping(p) /\ UNCHANGED others
    \/ \E p \in DOMAIN run : Upsert(p) /\ UNCHANGED others
    \/ \E p \in DOMAIN run : UpsertRaises(p) /\ UNCHANGED others
    \/ \E p \in DOMAIN run : SaveOpen(p) /\ UNCHANGED others
    \/ \E p \in DOMAIN run : SaveWrite(p) /\ UNCHANGED others
    \/ \E p \in DOMAIN run : Crash(p) /\ UNCHANGED others

Spec == Init /\ [][Next]_vars

\* -------------------------------------------------------------------------
\* Runs over a source whose columns are reordered between runs
\* -------------------------------------------------------------------------

\* Rows with two columns beside the key.
ReorderRecords ==
    { <<<<"id", IntVal(1)>>, <<"name", StrVal("A")>>, <<"value", IntVal(1)>>>>,
      <<<<"value", IntVal(2)>>, <<"id", IntVal(2)>>>> }

ReorderDatasets == UNION {[1..n -> ReorderRecords] : n \in 0..MaxLen}

\* The same fields and values in every insertion order.
Orderings(rec) ==
    {[j \in 1..Len(rec) |-> rec[f[j]]] : f \in Permutations(1..Len(rec))}

\* The datasets that differ from D at most in the order of the columns of
\* their rows.
RECURSIVE Reorderings(_)
Reorderings(D) ==
    IF D = <<>> THEN {<<>>}
    ELSE {<<q>> \o E : q \in Orderings(Head(D)), E \in Reorderings(Tail(D))}

\* The command is given again after a completed run; the source now yields
\* the same rows with their columns in another order.
Reorder(p, D, dry) ==
    /\ run[p].pc = "done"
    /\ D # run[p].src
    /\ run' = [run EXCEPT ![p] = [Idle EXCEPT !.pc = "read", !.dry_run = dry,
                                              !.src = D, !.file0 = state_file]]
    /\ hist' = [NoHist EXCEPT !.valid = TRUE, !.pc = "done",
                              !.dry_run = run[p].dry_run,
                              !.to_insert = run[p].to_insert,
                              !.to_update = run[p].to_update]
    /\ UNCHANGED state_file

StartReorder ==
    \E p \in DOMAIN run, D \in ReorderDatasets, dry \in BOOLEAN : Start(p, D, dry)
ReorderSome ==
    \E p \in DOMAIN run, dry \in BOOLEAN :
        \E D \in Reorderings(run[p].src) : Reorder(p, D, dry)

NextReorder ==
    \/ StartReorder /\ UNCHANGED others
    \/ ReorderSome /\ UNCHANGED others
    \/ \E p \in DOMAIN run : Exit(p) /\ UNCHANGED others
    \/ \E p \in DOMAIN run : ReadSource(p) /\ UNCHANGED others
    \/ \E p \in DOMAIN run : ReadSourceFails(p) /\ UNCHANGED others
    \/ \E p \in DOMAIN run : LoadState(p) /\ UNCHANGED others
    \/ \E p \in DOMAIN run : Diff(p) /\ UNCHANGED others
    \/ \E p \in DOMAIN run : DiffNonMapping(p) /\ UNCHANGED others
    \/ \E p \in DOMAIN run : Upsert(p) /\ UNCHANGED others
    \/ \E p \in DOMAIN run : UpsertRaises(p) /\ UNCHANGED others
    \/ \E p \in DOMAIN run : SaveOpen(p) /\ UNCHANGED others
    \/ \E p \in DOMAIN run : SaveWrite(p) /\ UNCHANGED others
    \/ \E p \in DOMAIN run : Crash(p) /\ UNCHANGED others

SpecReorder == Init /\ [][NextReorder]_vars

\* -------------------------------------------------------------------------
\* Batch upload: append_batches and the loop of the upload script
\* -------------------------------------------------------------------------

MaxN == 4
MaxB == 3

BatchVariants == {"append_batches", "script"}

\* No aggregate failure count has been reported.
NoCount == -1

\* end = start + batch_size, without the clamp to n.
ChunkEnd_NoClamp(start, batch_size, n) == start + batch_size

\* end = min(start + batch_size, n)
ChunkEnd(start, batch_size, n) ==
    IF start + batch_size <= n THEN start + batch_size ELSE n

\* The position of the loop after a chunk: the next element of
\* range(0, n, batch_size) in append_batches, start = end in the script.
NextStart(variant, start, end, batch_size) ==
    IF variant = "append_batches" THEN start + batch_size ELSE end

\* n = len(sdf); start = 0; total_added = 0; errors = []
BatchStart(variant, n, batch_size) ==
    /\ batch.pc = "none"
    /\ batch' = [pc |-> "loop", variant |-> variant, n |-> n,
                 batch_size |-> batch_size, start |-> 0, calls |-> <<>>,
                 rejected |-> <<>>, total_added |-> 0, errors |-> 0,
                 raised |-> "none", surfaced |-> NoCount]

\* One chunk whose rejected records are not added to errors.
BatchCall_DropErrors(rej) ==
    /\ batch.pc = "loop"
    /\ batch.start < batch.n
    /\ LET end == ChunkEnd(batch.start, batch.batch_size, batch.n)
       IN  /\ rej <= end - batch.start
           /\ batch' = [batch EXCEPT
                  !.calls = Append(@, <<batch.start, end>>),
                  !.rejected = Append(@, rej),
                  !.total_added = @ + ((end - batch.start) - rej),
                  !.start = NextStart(batch.variant, batch.start, end,
                                      batch.batch_size)]

\* One iteration whose platform call returns: the chunk start..end is
\* submitted, addResults reports rej of its records as not successful, the
\* others are counted in total_added and the rejected ones extend errors.
BatchCall(rej) ==
    /\ batch.pc = "loop"
    /\ batch.start < batch.n
    /\ LET end == ChunkEnd(batch.start, batch.batch_size, batch.n)
       IN  /\ rej <= end - batch.start
           /\ batch' = [batch EXCEPT
                  !.calls = Append(@, <<batch.start, end>>),
                  !.rejected = Append(@, rej),
                  !.total_added = @ + ((end - batch.start) - rej),
                  !.errors = @ + rej,
                  !.start = NextStart(batch.variant, batch.start, end,
                                      batch.batch_size)]

\* One iteration whose platform call raises: append_batches leaves the loop
\* through its except clause and raises RuntimeError with the text of the
\* exception; the script has no handler and ends with the exception. The
\* errors collected so far are not reported by either.
BatchCallRaises ==
    /\ batch.pc = "loop"
    /\ batch.start < batch.n
    /\ LET end == ChunkEnd(batch.start, batch.batch_size, batch.n)
       IN  batch' = [batch EXCEPT
                  !.calls = Append(@, <<batch.start, end>>),
                  !.pc = "end",
                  !.raised = "platform"]

\* After the loop: with errors, append_batches raises RuntimeError naming
\* len(errors) and the script prints len(errors); without, both end silently.
BatchFinish ==
    /\ batch.pc = "loop"
    /\ batch.start >= batch.n
    /\ batch' = [batch EXCEPT
           !.pc = "end",
           !.surfaced = IF batch.errors > 0 THEN batch.errors ELSE NoCount,
           !.raised = IF batch.errors > 0 /\ batch.variant = "append_batches"
                      THEN "aggregate" ELSE "none"]

\* The caller is gone; another upload may be started.
BatchExit ==
    /\ batch.pc = "end"
    /\ batch' = NoBatch

BatchStartSome ==
    \E variant \in BatchVariants, n \in 0..MaxN, batch_size \in 1..MaxB :
        BatchStart(variant, n, batch_size)
BatchCallSome == \E rej \in 0..MaxB : BatchCall(rej)

notBatch == <<state_file, run, hist, mgr>>

NextBatch ==
    \/ BatchStartSome /\ UNCHANGED notBatch
    \/ BatchCallSome /\ UNCHANGED notBatch
    \/ BatchCallRaises /\ UNCHANGED notBatch
    \/ BatchFinish /\ UNCHANGED notBatch
    \/ BatchExit /\ UNCHANGED notBatch

SpecBatch == Init /\ [][NextBatch]_vars

\* A step of the loop of an upload in progress.
BatchStep ==
    /\ BatchCallSome \/ BatchCallRaises \/ BatchFinish
    /\ UNCHANGED notBatch

\* An upload that is not abandoned by its caller: the loop keeps stepping
\* while it can.
FairSpecBatch ==
    /\ Init
    /\ [][NextBatch]_vars
    /\ WF_vars(BatchStep)

\* -------------------------------------------------------------------------
\* Two runs of the same project at the same time
\* -------------------------------------------------------------------------

\* What the source holds when each of the two commands reads it.
ConcDatasets ==
    { << <<<<"id", IntVal(1)>>, <<"name", StrVal("A")>>>> >>,
      << <<<<"id", IntVal(1)>>, <<"name", StrVal("A")>>>>,
         <<<<"id", IntVal(2)>>, <<"name", StrVal("A")>>>> >> }

\* Two processes, both about to be started; nothing locks the state file.
InitConc ==
    /\ state_file \in {Absent, ObjectFile(HashesOf(<<>>))}
    /\ run = [p \in {1, 2} |-> Idle]
    /\ hist = NoHist
    /\ batch = NoBatch
    /\ mgr = NoMgr

StartConc ==
    \E p \in DOMAIN run, D \in ConcDatasets, dry \in BOOLEAN : Start(p, D, dry)

NextConc ==
    \/ StartConc /\ UNCHANGED others
    \/ \E p \in DOMAIN run : ReadSource(p) /\ UNCHANGED others
    \/ \E p \in DOMAIN run : LoadState(p) /\ UNCHANGED others
    \/ \E p \in DOMAIN run : Diff(p) /\ UNCHANGED others
    \/ \E p \in DOMAIN run : Upsert(p) /\ UNCHANGED others
    \/ \E p \in DOMAIN run : SaveOpen(p) /\ UNCHANGED others
    \/ \E p \in DOMAIN run : SaveWrite(p) /\ UNCHANGED others

SpecConc == InitConc /\ [][NextConc]_vars

\* -------------------------------------------------------------------------
\* Construction of SyncManager: validate_settings and __init__
\* -------------------------------------------------------------------------

\* The values yaml.safe_load can put in a config: strings, None, lists and
\* dicts; Missing marks a key that is not there.
SV(x) == [t |-> "str", s |-> x, d |-> <<>>]
NoneV == [t |-> "none", s |-> "", d |-> <<>>]
LV == [t |-> "list", s |-> "", d |-> <<>>]
DV(f) == [t |-> "dict", s |-> "", d |-> f]
Missing == [t |-> "missing", s |-> "", d |-> <<>>]

\* The values that cannot be tested for membership in a set of strings.
Unhashable == {"list", "dict"}

SourceDict(T, K) ==
    DV([k \in {x \in {"type", "key_column"} :
                  (IF x = "type" THEN T ELSE K) # Missing} |->
           IF k = "type" THEN T ELSE K])

TargetDict(T) == DV([k \in {x \in {"type"} : T # Missing} |-> T])

Cfg(P, S, T) ==
    DV([k \in {x \in {"project", "source", "target"} :
                  (IF x = "project" THEN P ELSE IF x = "source" THEN S ELSE T)
                      # Missing} |->
           IF k = "project" THEN P ELSE IF k = "source" THEN S ELSE T])

SourceTypes == {SV("csv"), SV("postgres"), SV("gsheet"), SV("api"), NoneV, LV}
TargetTypes == {SV("arcgis_online"), SV("csv"), LV}
KeyColumns == {SV("id"), SV("code")}

SourceValues ==
    {SourceDict(T, K) : T \in SourceTypes \cup {Missing},
                        K \in KeyColumns \cup {Missing}} \cup {SV("csv"), Missing}
TargetValues ==
    {TargetDict(T) : T \in TargetTypes \cup {Missing}} \cup {SV("arcgis_online"), Missing}

\* What load_config can return.
Configs ==
    {Cfg(P, S, T) : P \in {SV("demo"), Missing}, S \in SourceValues,
                    T \in TargetValues} \cup {LV}

\* _require(path): TRUE when every key of the path is found in a dict.
RECURSIVE Require(_, _)
Require(cur, path) ==
    IF path = <<>> THEN TRUE
    ELSE IF cur.t # "dict" \/ Head(path) \notin DOMAIN cur.d THEN FALSE
    ELSE Require(cur.d[Head(path)], Tail(path))

Needed == <<<<"project">>, <<"source", "type">>, <<"target", "type">>>>

\* validate_settings(cfg): the exception it raises, "none" when it returns.
\* A membership test in a set hashes its left side first.
validate_settings(cfg) ==
    IF \E j \in 1..Len(Needed) : ~Require(cfg, Needed[j]) THEN "ValueError"
    ELSE LET st == cfg.d["source"].d["type"]
             tt == cfg.d["target"].d["type"]
         IN  IF st.t \in Unhashable THEN "TypeError"
             ELSE IF st \notin {SV("csv"), SV("postgres"), SV("gsheet")}
                  THEN "ValueError"
             ELSE IF tt.t \in Unhashable THEN "TypeError"
             ELSE IF tt \notin {SV("arcgis_online")} THEN "ValueError"
             ELSE "none"

\* SyncManager(cfg, dry_run), up to the call of validate_settings.
Construct(cfg, dry) ==
    /\ mgr.pc = "none"
    /\ mgr' = [pc |-> "validating", cfg |-> cfg, given |-> cfg,
               dry_run |-> dry, exc |-> "none", key_col |-> Missing,
               state_dir |-> FALSE, source |-> FALSE, sink |-> FALSE]

\* validate_settings(cfg) returns or raises; it assigns nothing in cfg.
Validate ==
    /\ mgr.pc = "validating"
    /\ LET e == validate_settings(mgr.cfg)
       IN  mgr' = [mgr EXCEPT !.pc = IF e = "none" THEN "validated" ELSE "raised",
                              !.exc = e]

\* The rest of __init__: key_col, state_dir.mkdir, state_file.
FinishInit ==
    /\ mgr.pc = "validated"
    /\ mgr' = [mgr EXCEPT
           !.pc = "constructed",
           !.key_col = IF "key_column" \in DOMAIN mgr.cfg.d["source"].d
                       THEN mgr.cfg.d["source"].d["key_column"] ELSE SV("id"),
           !.state_dir = TRUE]

\* run begins: src = self._source(); sink = self._sink()
BuildSourceAndSink ==
    /\ mgr.pc = "constructed"
    /\ mgr' = [mgr EXCEPT !.pc = "running", !.source = TRUE, !.sink = TRUE]

\* The command has ended, with the exception or after the run.
Discard ==
    /\ mgr.pc \in {"raised", "running"}
    /\ mgr' = NoMgr

ConstructSome == \E cfg \in Configs, dry \in BOOLEAN : Construct(cfg, dry)

notMgr == <<state_file, run, hist, batch>>

NextCfg ==
    \/ ConstructSome /\ UNCHANGED notMgr
    \/ Validate /\ UNCHANGED notMgr
    \/ FinishInit /\ UNCHANGED notMgr
    \/ BuildSourceAndSink /\ UNCHANGED notMgr
    \/ Discard /\ UNCHANGED notMgr

SpecCfg == Init /\ [][NextCfg]_vars

\* -------------------------------------------------------------------------
\* A sequence of runs over a source that changes between them
\* -------------------------------------------------------------------------

\* What the source holds at the successive runs.
SeqDatasets ==
    { <<>>,
      << <<<<"id", IntVal(1)>>, <<"name", StrVal("A")>>>> >>,
      << <<<<"id", IntVal(1)>>, <<"name", StrVal("B")>>>> >>,
      << <<<<"id", IntVal(2)>>, <<"name", StrVal("A")>>>> >>,
      << <<<<"id", IntVal(1)>>, <<"name", StrVal("A")>>>>,
         <<<<"id", IntVal(2)>>, <<"name", StrVal("A")>>>> >>,
      << <<<<"id", IntVal(2)>>, <<"name", StrVal("A")>>>>,
         <<<<"name", StrVal("A")>>>> >> }

\* The command is given again after a run that completed or failed, over
\* what the source holds now. hist keeps of the run that has ended its
\* outcome, what it sent, its dataset, the state file it started from, and
\* the dataset of the completed run before it.
NextRun(p, D, dry) ==
    /\ run[p].pc \in {"done", "failed"}
    /\ run' = [run EXCEPT ![p] = [Idle EXCEPT !.pc = "read", !.dry_run = dry,
                                              !.src = D, !.file0 = state_file]]
    /\ hist' = [NoHist EXCEPT
           !.valid = TRUE,
           !.pc = run[p].pc,
           !.err = run[p].err.kind,
           !.to_insert = run[p].to_insert,
           !.to_update = run[p].to_update,
           !.file0 = run[p].file0,
           !.cm = run[p].current_map,
           !.before = IF hist.valid /\ hist.pc = "done" /\ run[p].pc = "done"
                      THEN hist.cm ELSE <<>>]
    /\ UNCHANGED state_file

StartSeq ==
    \E p \in DOMAIN run, D \in SeqDatasets, dry \in BOOLEAN : Start(p, D, dry)
NextRunSome ==
    \E p \in DOMAIN run, D \in SeqDatasets, dry \in BOOLEAN : NextRun(p, D, dry)

NextSeq ==
    \/ StartSeq /\ UNCHANGED others
    \/ NextRunSome /\ UNCHANGED others
    \/ \E p \in DOMAIN run : Exit(p) /\ UNCHANGED others
    \/ \E p \in DOMAIN run : ReadSource(p) /\ UNCHANGED others
    \/ \E p \in DOMAIN run : ReadSourceFails(p) /\ UNCHANGED others
    \/ \E p \in DOMAIN run : LoadState(p) /\ UNCHANGED others
    \/ \E p \in DOMAIN run : Diff(p) /\ UNCHANGED others
    \/ \E p \in DOMAIN run : DiffNonMapping(p) /\ UNCHANGED others
    \/ \E p \in DOMAIN run : Upsert(p) /\ UNCHANGED others
    \/ \E p \in DOMAIN run : UpsertRaises(p) /\ UNCHANGED others
    \/ \E p \in DOMAIN run : SaveOpen(p) /\ UNCHANGED others
    \/ \E p \in DOMAIN run : SaveWrite(p) /\ UNCHANGED others

SpecSeq == Init /\ [][NextSeq]_vars

\* -------------------------------------------------------------------------
\* Properties
\* -------------------------------------------------------------------------

KeysOf(cm) == {cm[j][1] : j \in 1..Len(cm)}
KeyOfRec(rec) == Str(Get(rec, key_col))
RecordsOf(cm) == [j \in 1..Len(cm) |-> cm[j][2]]
InSeq(x, q) == \E j \in 1..Len(q) : q[j] = x
\* The positions of the list q that hold a record of key k.
AtKey(q, k) == {j \in 1..Len(q) : KeyOfRec(q[j]) = k}
\* The run has diffed current_map against a loaded mapping.
DiffedAgainstMapping(r) == r.pc \in Diffed /\ r.prev_hash.kind = "object"

\* C1: every key of the current dataset is in exactly one of unchanged (its
\* fingerprint equals the stored one), to_insert and to_update, once; a key
\* of the previous state that is not in the dataset is in neither list.
DiffCompleteness ==
    \A p \in DOMAIN run :
        DiffedAgainstMapping(run[p]) =>
            LET r == run[p]
                S == r.prev_hash.map
                Unchanged(j) == /\ r.current_map[j][1] \in DOMAIN S
                                /\ record_hash(r.current_map[j][2])
                                       = S[r.current_map[j][1]]
            IN  /\ \A j \in 1..Len(r.current_map) :
                       (IF Unchanged(j) THEN 1 ELSE 0)
                       + Cardinality(AtKey(r.to_insert, r.current_map[j][1]))
                       + Cardinality(AtKey(r.to_update, r.current_map[j][1])) = 1
                /\ \A k \in DOMAIN S \ KeysOf(r.current_map) :
                       AtKey(r.to_insert, k) = {} /\ AtKey(r.to_update, k) = {}

\* C1 witness: a diff with an update while the previous state holds a key
\* that the dataset no longer has.
DiffCompletenessWitness ==
    \E p \in DOMAIN run :
        /\ run[p].pc = "sink"
        /\ run[p].prev_hash.kind = "object"
        /\ run[p].to_update # <<>>
        /\ DOMAIN run[p].prev_hash.map \ KeysOf(run[p].current_map) # {}

\* C2: a record is in to_insert iff its key is absent from the previous
\* state, and in to_update iff its key is there with another fingerprint.
DiffClassification ==
    \A p \in DOMAIN run :
        DiffedAgainstMapping(run[p]) =>
            LET r == run[p]
                S == r.prev_hash.map
            IN  \A j \in 1..Len(r.current_map) :
                    LET k == r.current_map[j][1]
                        rec == r.current_map[j][2]
                    IN  /\ InSeq(rec, r.to_insert) <=> k \notin DOMAIN S
                        /\ InSeq(rec, r.to_update) <=>
                               (k \in DOMAIN S /\ record_hash(rec) # S[k])

\* C2 witness: a diff over two records, one an insert and one an update.
DiffClassificationWitness ==
    \E p \in DOMAIN run :
        /\ run[p].pc = "sink"
        /\ run[p].prev_hash.kind = "object"
        /\ Len(run[p].current_map) = 2
        /\ Len(run[p].to_update) = 1
        /\ Len(run[p].to_insert) = 1

\* C3: the run that follows a completed run over the same dataset finds
\* nothing to insert and nothing to update.
Idempotence ==
    \A p \in DOMAIN run :
        (run[p].pc \in Diffed /\ hist.valid /\ hist.pc = "done") =>
            run[p].to_insert = <<>> /\ run[p].to_update = <<>>

\* C3 witness: the second run has diffed, and the first had inserts.
IdempotenceWitness ==
    \E p \in DOMAIN run :
        /\ run[p].pc = "sink"
        /\ hist.valid /\ hist.pc = "done"
        /\ Len(hist.to_insert) = 2
        /\ Len(run[p].current_map) = 2

\* C4 as stated: a dry run leaves the state file as it found it, and the
\* real run that follows it over the same dataset computes the diff the dry
\* run computed.
DryRunLeavesState ==
    \A p \in DOMAIN run :
        /\ (run[p].pc = "done" /\ run[p].dry_run) =>
               state_file = run[p].file0
        /\ (run[p].pc \in Diffed /\ ~run[p].dry_run
               /\ hist.valid /\ hist.pc = "done" /\ hist.dry_run) =>
               /\ run[p].to_insert = hist.to_insert
               /\ run[p].to_update = hist.to_update

\* C5: when sink.upsert raises, the state file is as it was before the run
\* and the next run over the same dataset computes the same diff.
SinkFailureKeepsState ==
    \A p \in DOMAIN run :
        /\ (run[p].pc = "failed" /\ run[p].err.kind = "SinkError") =>
               state_file = run[p].file0
        /\ (run[p].pc \in Diffed /\ hist.valid /\ hist.err = "SinkError") =>
               /\ run[p].to_insert = hist.to_insert
               /\ run[p].to_update = hist.to_update

\* C5 witness: the run after a sink failure has diffed again, with an
\* insert and an update to retry, against a state some earlier run saved.
SinkFailureWitness ==
    \E p \in DOMAIN run :
        /\ run[p].pc = "sink"
        /\ hist.valid /\ hist.err = "SinkError"
        /\ Len(run[p].to_insert) = 1
        /\ Len(run[p].to_update) = 1
        /\ state_file.kind = "object"

\* The positions of the records the source yielded that lack the key column.
LackKey(r) == {j \in 1..r.yielded : ~HasField(r.src[j], key_col)}
Min(A) == CHOOSE x \in A : \A y \in A : x <= y

\* C6: once the source has yielded a record without the key column, the run
\* has failed with a KeyError that carries that record, and the sink was not
\* called.
MissingKeyFailsFast ==
    \A p \in DOMAIN run :
        (run[p].pc \in (Running \cup Ended) \ {"read", "crashed"}
            /\ LackKey(run[p]) # {}) =>
            /\ run[p].pc = "failed"
            /\ run[p].err = [kind |-> "KeyError",
                             rec |-> run[p].src[Min(LackKey(run[p]))]]
            /\ run[p].upserts = 0

\* C6 witness: the record without the key is the second one the source
\* yields, after a good record.
MissingKeyWitness ==
    \E p \in DOMAIN run :
        /\ run[p].pc = "failed"
        /\ run[p].err.kind = "KeyError"
        /\ LackKey(run[p]) = {2}

\* What the claims call a missing or malformed state file.
MissingOrMalformed(f) == f.kind \in {"absent"} \cup Unparseable

\* C7: the step that loads the state never fails; it yields the empty
\* mapping when the file is missing or cannot be parsed, and the stored
\* mapping when the file holds one.
LoadNeverFails ==
    [][\A p \in DOMAIN run :
          (run[p].pc = "load" /\ run'[p].pc \notin {"load", "crashed"}) =>
              /\ run'[p].pc = "diff"
              /\ MissingOrMalformed(state_file) =>
                     run'[p].prev_hash = [kind |-> "object", map |-> NoMap]
              /\ state_file.kind = "object" =>
                     run'[p].prev_hash = [kind |-> "object",
                                          map |-> state_file.map]]_vars

\* C7 witness: a run has loaded the empty mapping from a file that is not
\* JSON.
LoadNeverFailsWitness ==
    \E p \in DOMAIN run :
        /\ run[p].pc = "diff"
        /\ state_file = Garbage
        /\ run[p].prev_hash = [kind |-> "object", map |-> NoMap]
        /\ run[p].current_map # <<>>

\* C8: a run that starts with a missing or malformed state file does not
\* fail on it, puts every record of the dataset in to_insert and none in
\* to_update, and ends with the state of the dataset written.
CorruptStateAllInserts ==
    \A p \in DOMAIN run :
        MissingOrMalformed(run[p].file0) =>
            /\ run[p].pc = "failed" =>
                   run[p].err.kind \in {"KeyError", "SourceError", "SinkError"}
            /\ run[p].pc \in Diffed =>
                   /\ run[p].to_insert = RecordsOf(run[p].current_map)
                   /\ run[p].to_update = <<>>
            /\ run[p].pc = "done" =>
                   state_file = ObjectFile(HashesOf(run[p].current_map))

\* C8 witness: a run that started on a truncated state file has completed
\* with two inserts.
CorruptStateWitness ==
    \E p \in DOMAIN run :
        /\ run[p].pc = "done"
        /\ run[p].file0.kind \in {"empty", "partial"}
        /\ Len(run[p].to_insert) = 2
        /\ state_file.kind = "object"

\* The last record of the source with key k.
LastWithKey(D, k) ==
    D[CHOOSE j \in 1..Len(D) :
          /\ KeyOfRec(D[j]) = k
          /\ \A h \in (j + 1)..Len(D) : KeyOfRec(D[h]) # k]

\* C9: after a run that saved, the state file holds exactly the stringified
\* keys of the run's dataset, each with the fingerprint of its record, and
\* no key of the previous state beside them.
StateReplacedWholesale ==
    \A p \in DOMAIN run :
        run[p].pc = "done" =>
            LET D == run[p].src
            IN  /\ state_file.kind = "object"
                /\ DOMAIN state_file.map = {KeyOfRec(D[j]) : j \in 1..Len(D)}
                /\ \A k \in DOMAIN state_file.map :
                       state_file.map[k] = record_hash(LastWithKey(D, k))

\* C9 witness: a completed run whose previous state held a key that its
\* dataset did not.
StateReplacedWitness ==
    \E p \in DOMAIN run :
        /\ run[p].pc = "done"
        /\ run[p].prev_hash.kind = "object"
        /\ DOMAIN run[p].prev_hash.map \ DOMAIN state_file.map # {}
        /\ state_file.map # NoMap

\* C10 as stated: while a save replaces a complete previous state, and after
\* a crash inside it, the file holds the previous state or the new one.
AtomicSave ==
    \A p \in DOMAIN run :
        (run[p].file0.kind = "object"
            /\ (run[p].pc = "saving"
                \/ (run[p].pc = "crashed" /\ run[p].at = "saving"))) =>
            \/ state_file = run[p].file0
            \/ state_file =
                   ObjectFile(HashesOf(ReadLoop(run[p].src, 1, <<>>).current_map))

\* C11: the fingerprint of a record is the same for every order of its
\* fields, and the run over a dataset that differs from the one just saved
\* only in the order of the columns inserts nothing and updates nothing.
FingerprintStability ==
    \A p \in DOMAIN run :
        /\ \A j \in 1..Len(run[p].src) :
               \A q \in Orderings(run[p].src[j]) :
                   record_hash(q) = record_hash(run[p].src[j])
        /\ (run[p].pc \in Diffed /\ hist.valid /\ hist.pc = "done") =>
               run[p].to_insert = <<>> /\ run[p].to_update = <<>>

\* C11 witness: the first run inserted two rows, and the second run has
\* diffed the same two rows, both with their columns in an order the first
\* run did not see.
FingerprintStabilityWitness ==
    \E p \in DOMAIN run :
        /\ run[p].pc = "sink"
        /\ hist.valid /\ hist.pc = "done"
        /\ Len(hist.to_insert) = 2
        /\ Len(run[p].current_map) = 2
        /\ \A j \in 1..2 : run[p].current_map[j][2] \notin ReorderRecords
        /\ \E j \in 1..2 : Len(run[p].current_map[j][2]) = 3

\* The number of chunks of n records in groups of b: ceil(n / b).
NumChunks(n, b) == (n + b - 1) \div b

RECURSIVE SumSeq(_)
SumSeq(q) == IF q = <<>> THEN 0 ELSE Head(q) + SumSeq(Tail(q))

\* C12 as stated: however a chunk fails, every chunk is still submitted and
\* the failures are reported after the last chunk with their total count.
ChunkFailureNeverAborts ==
    batch.pc = "end" =>
        /\ Len(batch.calls) = NumChunks(batch.n, batch.batch_size)
        /\ batch.errors > 0 => batch.surfaced = batch.errors

\* C12 amended: records rejected in addResults do not abort the upload: they
\* are counted, every remaining chunk is submitted, and nothing is reported
\* as an aggregate before the loop is over, when the count reported is the
\* total number of rejected adds. An exception from the platform call ends
\* the upload at that chunk: no later chunk is submitted and the count of
\* the rejected adds collected so far is not reported.
RejectedAddsDoNotAbort ==
    /\ batch.pc = "loop" => batch.surfaced = NoCount /\ batch.raised = "none"
    /\ batch.pc \in {"loop", "end"} /\ batch.raised # "platform" =>
           /\ Len(batch.rejected) = Len(batch.calls)
           /\ batch.errors = SumSeq(batch.rejected)
    /\ batch.pc = "end" /\ batch.raised # "platform" =>
           /\ Len(batch.calls) = NumChunks(batch.n, batch.batch_size)
           /\ batch.surfaced = (IF batch.errors > 0 THEN batch.errors
                                ELSE NoCount)
           /\ batch.raised = "aggregate" <=>
                  (batch.errors > 0 /\ batch.variant = "append_batches")
    /\ batch.pc = "end" /\ batch.raised = "platform" =>
           /\ Len(batch.rejected) = Len(batch.calls) - 1
           /\ batch.surfaced = NoCount

\* C12 witness: an upload of three chunks ended without an exception; the
\* first and the last chunk had rejected records, and their total is the
\* count reported.
RejectedAddsWitness ==
    /\ batch.pc = "end"
    /\ batch.raised # "platform"
    /\ Len(batch.calls) = 3
    /\ batch.rejected[1] > 0
    /\ batch.rejected[2] = 0
    /\ batch.rejected[3] > 0
    /\ batch.surfaced = batch.rejected[1] + batch.rejected[3]

\* The chunks submitted so far are contiguous from record 0 in index order,
\* none is empty or larger than batch_size, every chunk but the last of the
\* ceil(n / batch_size) is full, and an upload that ended without an
\* exception submitted exactly ceil(n / batch_size) chunks that end at n.
ChunksCover ==
    batch.pc \in {"loop", "end"} =>
        LET c == batch.calls
            b == batch.batch_size
            n == batch.n
        IN  /\ Len(c) <= NumChunks(n, b)
            /\ \A i \in 1..Len(c) :
                   /\ c[i][1] = (IF i = 1 THEN 0 ELSE c[i - 1][2])
                   /\ c[i][1] < c[i][2]
                   /\ c[i][2] <= n
                   /\ c[i][2] - c[i][1] <= b
                   /\ i < NumChunks(n, b) => c[i][2] - c[i][1] = b
            /\ batch.pc = "end" /\ batch.raised # "platform" =>
                   /\ Len(c) = NumChunks(n, b)
                   /\ n > 0 => c[Len(c)][2] = n
                   /\ n = 0 => c = <<>>

\* C13: for n records and batch_size >= 1 the chunks submitted cover the
\* records exactly once, in index order, in ceil(n / batch_size) calls of at
\* most batch_size records, all but the last full, none for n = 0; and the
\* loop terminates.
ChunkingCoversAndTerminates ==
    /\ []ChunksCover
    /\ (batch.pc = "loop") ~> (batch.pc = "end")

\* C13 witness: four records in chunks of three were uploaded in two calls,
\* the last one short.
ChunkingWitness ==
    /\ batch.pc = "end"
    /\ batch.raised # "platform"
    /\ batch.n = 4
    /\ batch.batch_size = 3
    /\ batch.calls = <<<<0, 3>>, <<3, 4>>>>

\* C14: a run reads the source to its end, then loads the state, then
\* diffs, then calls the sink once, then writes the state once: the state is
\* loaded only by a run that has read every record, the sink is called only
\* once and only after the load, the state file is written only by a run
\* whose one sink call has returned, and a run completes only with the
\* source read, the sink called once and the state file holding its hashes.
OrderOfRun ==
    [][\A p \in DOMAIN run :
          /\ (run[p].prev_hash.kind = "none" /\ run'[p].prev_hash.kind # "none") =>
                 /\ run[p].pc = "load"
                 /\ run[p].yielded = Len(run[p].src)
                 /\ run[p].upserts = 0
          /\ run'[p].upserts > run[p].upserts =>
                 /\ run[p].pc = "sink"
                 /\ run[p].upserts = 0
                 /\ run[p].prev_hash.kind # "none"
                 /\ run[p].file0 = state_file
          /\ state_file' # state_file =>
                 /\ run[p].pc \in {"save", "saving"}
                 /\ run[p].upserts = 1
          /\ (run[p].pc # "done" /\ run'[p].pc = "done") =>
                 /\ run[p].pc = "saving"
                 /\ run[p].yielded = Len(run[p].src)
                 /\ run[p].prev_hash.kind # "none"
                 /\ run[p].upserts = 1
                 /\ run'[p].upserts = 1
                 /\ state_file' = ObjectFile(HashesOf(run[p].current_map))
    ]_vars

\* C14 witness: a run that is no dry run has completed over two records: it
\* read both, loaded a state, called the sink once and replaced the state
\* file.
OrderOfRunWitness ==
    \E p \in DOMAIN run :
        /\ run[p].pc = "done"
        /\ ~run[p].dry_run
        /\ run[p].yielded = 2
        /\ run[p].prev_hash.kind = "object"
        /\ Len(run[p].to_insert) = 2
        /\ run[p].upserts = 1
        /\ state_file # run[p].file0
        /\ state_file = ObjectFile(HashesOf(run[p].current_map))

\* C15: with two runs interleaved over one state file, a save replaces the
\* file with the hashes of the run that makes it and nothing of the other
\* run's: whenever the file is a mapping after both have completed it is the
\* mapping of one run alone, and a write that meets the file as its own open
\* left it puts there exactly the writer's hashes (a write over what the
\* other run wrote in between leaves the writer's hashes or no JSON at all).
RaceLastSaveWins ==
    /\ []((\A p \in DOMAIN run : run[p].pc = "done") =>
            \/ state_file = Garbage
            \/ \E p \in DOMAIN run :
                   state_file = ObjectFile(HashesOf(run[p].current_map)))
    /\ [][\A p \in DOMAIN run :
            (run[p].pc = "saving" /\ run'[p].pc = "done") =>
                /\ state_file = Empty =>
                       state_file' = ObjectFile(HashesOf(run[p].current_map))
                /\ state_file' \in
                       {ObjectFile(HashesOf(run[p].current_map)), Garbage}]_vars

\* C15 witness: both runs loaded the same previous state and both passed
\* record 1 to the sink as an insert; run 2 also inserted record 2, but run 1
\* saved last and the state file has no hash for key 2.
RaceWitness ==
    /\ \A p \in DOMAIN run : run[p].pc = "done" /\ run[p].upserts = 1
    /\ run[1].prev_hash = run[2].prev_hash
    /\ run[1].prev_hash.kind = "object"
    /\ \A p \in DOMAIN run :
           \E j \in 1..Len(run[p].to_insert) :
               run[p].to_insert[j] = <<<<"id", IntVal(1)>>, <<"name", StrVal("A")>>>>
    /\ Len(run[2].to_insert) = 2
    /\ state_file = ObjectFile(HashesOf(run[1].current_map))
    /\ state_file # ObjectFile(HashesOf(run[2].current_map))

\* The configs the claim calls invalid: project, source.type or target.type
\* is not there, or source.type is none of csv, postgres, gsheet, or
\* target.type is not arcgis_online.
InvalidConfig(cfg) ==
    \/ cfg.t # "dict"
    \/ "project" \notin DOMAIN cfg.d
    \/ "source" \notin DOMAIN cfg.d
    \/ "target" \notin DOMAIN cfg.d
    \/ cfg.d["source"].t # "dict"
    \/ cfg.d["target"].t # "dict"
    \/ "type" \notin DOMAIN cfg.d["source"].d
    \/ "type" \notin DOMAIN cfg.d["target"].d
    \/ cfg.d["source"].d["type"] \notin {SV("csv"), SV("postgres"), SV("gsheet")}
    \/ cfg.d["target"].d["type"] # SV("arcgis_online")

\* C16 as stated: construction with an invalid config ends in ValueError
\* with no state directory made and no source or sink built; the config is
\* never changed; key_col is "id" when the config names no key_column.
ConfigValidationGates ==
    /\ mgr.pc # "none" =>
           /\ mgr.cfg = mgr.given
           /\ InvalidConfig(mgr.given) =>
                  /\ mgr.pc \in {"validating", "raised"}
                  /\ mgr.pc = "raised" => mgr.exc = "ValueError"
                  /\ ~mgr.state_dir /\ ~mgr.source /\ ~mgr.sink
    /\ mgr.pc \in {"constructed", "running"} =>
           /\ ~InvalidConfig(mgr.given)
           /\ "key_column" \notin DOMAIN mgr.cfg.d["source"].d =>
                  mgr.key_col = SV("id")

\* C17: of the records of the source whose keys have the same string form
\* the run keeps the last one: current_map has one entry for the key, the
\* last record; at most one record of the key is in to_insert and to_update
\* together, and it is that record; and the state saved for the key is the
\* fingerprint of that record.
DuplicateKeysCollapse ==
    \A p \in DOMAIN run :
        LET r == run[p]
            D == r.src
            sent == r.to_insert \o r.to_update
        IN  r.pc \in {"load", "diff"} \cup Diffed =>
              \A k \in {KeyOfRec(D[j]) : j \in 1..Len(D)} :
                /\ Cardinality({j \in 1..Len(r.current_map) :
                                    r.current_map[j][1] = k}) = 1
                /\ \A j \in 1..Len(r.current_map) :
                       r.current_map[j][1] = k =>
                           r.current_map[j][2] = LastWithKey(D, k)
                /\ r.pc \in Diffed =>
                       /\ Cardinality(AtKey(sent, k)) <= 1
                       /\ \A j \in AtKey(sent, k) : sent[j] = LastWithKey(D, k)
                /\ r.pc = "done" =>
                       /\ state_file.kind = "object"
                       /\ k \in DOMAIN state_file.map
                       /\ state_file.map[k] = record_hash(LastWithKey(D, k))

\* C17 witness: the source yielded a record with key 1 and then one with key
\* "1" and other values; the run sent the second alone and saved its
\* fingerprint.
DuplicateKeysWitness ==
    \E p \in DOMAIN run :
        /\ run[p].pc = "done"
        /\ Len(run[p].src) = 2
        /\ Get(run[p].src[1], key_col) = IntVal(1)
        /\ Get(run[p].src[2], key_col) = StrVal("1")
        /\ record_hash(run[p].src[1]) # record_hash(run[p].src[2])
        /\ run[p].to_insert \o run[p].to_update = <<run[p].src[2]>>
        /\ state_file = ObjectFile([k \in {"1"} |-> record_hash(run[p].src[2])])

\* C18 as stated: whatever the state file holds, what _load_state returns
\* is a mapping, and the diff is given a mapping as previous state.
LoadedStateIsMapping ==
    \A p \in DOMAIN run :
        run[p].pc = "diff" => run[p].prev_hash.kind = "object"

\* C19: when three runs complete one after another, a key of the first
\* dataset that is not in the second has no record among what the second
\* run sent, and if the third dataset has it again the third run puts its
\* record in to_insert and not in to_update, whatever its values.
KeyReturnsAsInsert ==
    \A p \in DOMAIN run :
        (run[p].pc \in Diffed /\ hist.valid /\ hist.pc = "done") =>
            \A k \in KeysOf(hist.before) \ KeysOf(hist.cm) :
                /\ AtKey(hist.to_insert \o hist.to_update, k) = {}
                /\ k \in KeysOf(run[p].current_map) =>
                       /\ \E j \in AtKey(run[p].to_insert, k) :
                              \E h \in 1..Len(run[p].current_map) :
                                  run[p].current_map[h] = <<k, run[p].to_insert[j]>>
                       /\ AtKey(run[p].to_update, k) = {}

\* C19 witness: record 1 was synced, left out of the next run and is back in
\* the third with the same values; the third run has it in to_insert.
KeyReturnsWitness ==
    \E p \in DOMAIN run :
        /\ run[p].pc = "done"
        /\ hist.valid /\ hist.pc = "done"
        /\ hist.before = <<<<"1", <<<<"id", IntVal(1)>>, <<"name", StrVal("A")>>>>>>>>
        /\ KeysOf(hist.cm) = {"2"}
        /\ run[p].current_map = hist.before
        /\ run[p].to_insert = <<<<<<"id", IntVal(1)>>, <<"name", StrVal("A")>>>>>>

\* The failures of a run while it reads the source.
ReadFailures == {"SourceError", "KeyError"}

\* C20: a run that fails while reading the source, or on a record without
\* the key column, leaves the state file as it found it, and the run that
\* follows diffs against what that file held before the failed run.
FailedReadKeepsState ==
    \A p \in DOMAIN run :
        /\ (run[p].pc = "failed" /\ run[p].err.kind \in ReadFailures) =>
               state_file = run[p].file0
        /\ (hist.valid /\ hist.pc = "failed" /\ hist.err \in ReadFailures
                /\ run[p].pc \in {"diff"} \cup Diffed) =>
               /\ run[p].file0 = hist.file0
               /\ run[p].prev_hash = load_state(hist.file0)

\* C20 witness: after a completed run, a run failed on a record without the
\* key column, and the run after it has diffed against the state the
\* completed run saved.
FailedReadWitness ==
    \E p \in DOMAIN run :
        /\ hist.valid /\ hist.pc = "failed" /\ hist.err = "KeyError"
        /\ hist.file0.kind = "object"
        /\ DOMAIN hist.file0.map = {"1"}
        /\ run[p].pc = "sink"
        /\ run[p].prev_hash.map = hist.file0.map
        /\ Len(run[p].current_map) = 2
        /\ Len(run[p].to_insert) = 1

====
